---------------------------- MODULE Spec2Model ----------------------------
(***************************************************************************)
(* Model of the sso authentication service: the gRPC transport handlers,   *)
(* the Auth service behind them, the postgres storage they share, and the  *)
(* process lifecycle of cmd/sso/main.go.                                   *)
(*                                                                         *)
(* Every client is one in-flight RPC at a time.  A handler is one action   *)
(* per storage round trip: everything a handler does between two round     *)
(* trips is local to its goroutine, so the round trips are the only        *)
(* points at which concurrent handlers can observe each other.  Login is   *)
(* the one handler with two round trips (users, then apps).                *)
(***************************************************************************)
EXTENDS Integers, Sequences, FiniteSets, TLC

\* ------------------------------------------------------------------ bounds
\* Total number of RPCs the clients issue in one behaviour.
MaxCalls == 3

\* ------------------------------------------------------------------ inputs
Clients == {1, 2}
Emails == {"a@x.com", "b@x.com"}
RoleInputs == {"", "user", "organizer", "admin", "superuser"}
UserIds == {1, 2}
AppIds == {1, 2}

\* Length in bytes of the passwords the clients send.
ByteLen(p) ==
    CASE p = "" -> 0
      [] p = "pw123" -> 5
      [] p = "qwerty" -> 6
      [] p = "long73" -> 73

\* bcrypt refuses passwords longer than this many bytes.
MaxBcryptLen == 72

\* The apps table: application 1 is provisioned, application 2 is not.
Apps == {[ID |-> 1, Name |-> "events", Secret |-> "s3cr3t"]}

\* ------------------------------------------------------------------ values
Nil == "nil"
NoHash == [alg |-> "none", of |-> ""]
NoUser == [ID |-> 0, Email |-> "", PassHash |-> NoHash, Role |-> ""]
NoApp == [ID |-> 0, Name |-> "", Secret |-> ""]
NoToken == [uid |-> 0, email |-> "", role |-> "", app_id |-> 0, key |-> ""]

\* A Go slice value: nil, or a (possibly empty) backing sequence.
NilSlice == [isNil |-> TRUE, elems |-> <<>>]
GoAppend(s, x) == [isNil |-> FALSE, elems |-> Append(s.elems, x)]

\* errors.Is over the wrap chains the code builds.  Every chain in this
\* program ends in at most one sentinel, so an error value is the sentinel
\* its chain reaches; "untyped" is an error built from text alone.
ErrorsIs(err, target) == err = target

Req(op, email, password, role, appId, userId) ==
    [op |-> op, email |-> email, password |-> password, role |-> role,
     appId |-> appId, userId |-> userId]

NoReq == Req("none", "", "", "", 0, 0)

\* What a handler hands back: the protocol status, the error the Auth
\* service returned to the handler ("notcalled" when the handler answered
\* without calling it), and the response payload.
Resp(code, err, uid, token, role, users) ==
    [code |-> code, err |-> err, uid |-> uid, token |-> token, role |-> role,
     users |-> users]

NoResp == Resp("none", "notcalled", 0, NoToken, "", NilSlice)

Requests ==
    {Req("Register", e, p, r, 0, 0) : e \in Emails, p \in {"pw123", "long73"}, r \in RoleInputs}
    \cup {Req("Register", "", "pw123", "", 0, 0), Req("Register", "a@x.com", "", "", 0, 0)}
    \cup {Req("Login", e, p, "", a, 0) : e \in Emails, p \in {"pw123", "qwerty"}, a \in AppIds}
    \cup {Req("Login", "", "pw123", "", 1, 0), Req("Login", "a@x.com", "", "", 1, 0),
          Req("Login", "a@x.com", "pw123", "", 0, 0)}
    \cup {Req("UpdateRole", "", "", r, 0, u) : r \in RoleInputs, u \in UserIds}
    \cup {Req("GetUserRole", "", "", "", 0, u) : u \in UserIds}
    \cup {Req("ListUsers", "", "", "", 0, 0)}

\* ------------------------------------------------------------------- state
VARIABLES
    users,      \* rows of the users table, in insertion order
    calls,      \* per client: position of its RPC, the request, locals, response
    nCalls,     \* RPCs issued so far
    app,        \* the App value app.New returned
    poolOpen,   \* the pgx pool created by postgres.New is open
    server,     \* gRPC server: "serving", "stopped"
    mainPc,     \* main goroutine: "wait", "stop", "close", "done", "panic"
    lastRole,   \* history: role of the latest successful Register/UpdateRole per id
    reg         \* history: per email, how the Register calls for it ended

vars == <<users, calls, nCalls, app, poolOpen, server, mainPc, lastRole, reg>>

\* ---------------------------------------------------------------- hashing
\* bcrypt.GenerateFromPassword: a one-way hash of the password, refused for
\* a password of more than 72 bytes.
GenerateFromPassword(password) ==
    IF ByteLen(password) > MaxBcryptLen
    THEN [hash |-> NoHash, err |-> "bcrypt.ErrPasswordTooLong"]
    ELSE [hash |-> [alg |-> "bcrypt", of |-> password], err |-> Nil]

\* bcrypt.CompareHashAndPassword: nil exactly when the hash was made from
\* this password.
CompareHashAndPassword(hash, password) ==
    IF hash.alg = "bcrypt" /\ hash.of = password
    THEN Nil
    ELSE "bcrypt.ErrMismatchedHashAndPassword"

\* ---------------------------------------------------------------- storage
\* The unique constraint on users.email: the INSERT fails with SQLSTATE 23505.
UniqueViolation(tbl, email) == \E i \in 1..Len(tbl) : tbl[i].Email = email

\* The id the users table assigns to a new row.
NextID(tbl) == Len(tbl) + 1

SaveUserNoDuplicateKind(tbl, email, passHash, role) ==
    IF UniqueViolation(tbl, email)
    THEN [id |-> 0, err |-> "untyped", users |-> tbl]
    ELSE [id |-> NextID(tbl), err |-> Nil,
          users |-> Append(tbl, [ID |-> NextID(tbl), Email |-> email,
                                 PassHash |-> passHash, Role |-> role])]

SaveUser(tbl, email, passHash, role) ==
    IF UniqueViolation(tbl, email)
    THEN [id |-> 0, err |-> "storage.ErrUserExists", users |-> tbl]
    ELSE [id |-> NextID(tbl), err |-> Nil,
          users |-> Append(tbl, [ID |-> NextID(tbl), Email |-> email,
                                 PassHash |-> passHash, Role |-> role])]

User(tbl, email) ==
    LET hit == {i \in 1..Len(tbl) : tbl[i].Email = email}
    IN  IF hit = {}
        THEN [user |-> NoUser, err |-> "storage.ErrUserNotFound"]
        ELSE [user |-> tbl[CHOOSE i \in hit : TRUE], err |-> Nil]

StorageUpdateRoleNoWrite(tbl, userID, role) ==
    IF role \notin {"admin", "user", "organizer"}
    THEN [users |-> tbl, err |-> "untyped"]
    ELSE IF {i \in 1..Len(tbl) : tbl[i].ID = userID} = {}
         THEN [users |-> tbl, err |-> "storage.ErrUserNotFound"]
         ELSE [users |-> tbl, err |-> Nil]

StorageUpdateRole(tbl, userID, role) ==
    IF role \notin {"admin", "user", "organizer"}
    THEN [users |-> tbl, err |-> "untyped"]
    ELSE LET hit == {i \in 1..Len(tbl) : tbl[i].ID = userID}
         IN  IF hit = {}
             THEN [users |-> tbl, err |-> "storage.ErrUserNotFound"]
             ELSE [users |-> [i \in 1..Len(tbl) |->
                                 IF i \in hit THEN [tbl[i] EXCEPT !.Role = role]
                                 ELSE tbl[i]],
                   err |-> Nil]

StorageApp(appID) ==
    LET hit == {a \in Apps : a.ID = appID}
    IN  IF hit = {}
        THEN [app |-> NoApp, err |-> "storage.ErrAppNotFound"]
        ELSE [app |-> CHOOSE a \in hit : TRUE, err |-> Nil]

StorageGetUserRole(tbl, userID) ==
    LET hit == {i \in 1..Len(tbl) : tbl[i].ID = userID}
    IN  IF hit = {}
        THEN [role |-> "", err |-> "storage.ErrUserNotFound"]
        ELSE [role |-> tbl[CHOOSE i \in hit : TRUE].Role, err |-> Nil]

\* The rows.Next() loop: users starts as the nil slice and grows by append.
RECURSIVE ScanRows(_, _, _)
ScanRows(tbl, i, acc) ==
    IF i > Len(tbl) THEN acc ELSE ScanRows(tbl, i + 1, GoAppend(acc, tbl[i]))

StorageListUsers(tbl) == [users |-> ScanRows(tbl, 1, NilSlice), err |-> Nil]

\* ------------------------------------------------------------ Auth service
\* The role rule of registration: empty means "user"; "admin" and unknown
\* roles are refused.
RegisterRoleUnknownAccepted(role) ==
    IF role = "" THEN [role |-> "user", ok |-> TRUE]
    ELSE [role |-> role, ok |-> role # "admin"]

RegisterRole(role) ==
    IF role = "" THEN [role |-> "user", ok |-> TRUE]
    ELSE [role |-> role, ok |-> role \in {"user", "organizer"}]

RegisterNewUser(tbl, email, pass, role) ==
    LET h == GenerateFromPassword(pass)
        r == RegisterRole(role)
        s == SaveUser(tbl, email, h.hash, r.role)
    IN  IF h.err # Nil THEN [id |-> 0, err |-> h.err, users |-> tbl]
        ELSE IF ~r.ok THEN [id |-> 0, err |-> "auth.ErrInvalidRole", users |-> tbl]
        ELSE IF s.err # Nil THEN [id |-> 0, err |-> s.err, users |-> tbl]
        ELSE [id |-> s.id, err |-> Nil, users |-> s.users]

\* Login up to and including the password check.
LoginUserMismatchIsNotFound(tbl, email, password) ==
    LET u == User(tbl, email)
    IN  IF u.err # Nil
        THEN [user |-> NoUser, err |-> "auth.ErrUserNotFound"]
        ELSE IF CompareHashAndPassword(u.user.PassHash, password) # Nil
        THEN [user |-> NoUser, err |-> "auth.ErrUserNotFound"]
        ELSE [user |-> u.user, err |-> Nil]

LoginUser(tbl, email, password) ==
    LET u == User(tbl, email)
    IN  IF u.err # Nil
        THEN IF ErrorsIs(u.err, "storage.ErrUserNotFound")
             THEN [user |-> NoUser, err |-> "auth.ErrUserNotFound"]
             ELSE [user |-> NoUser, err |-> u.err]
        ELSE IF CompareHashAndPassword(u.user.PassHash, password) # Nil
        THEN [user |-> NoUser, err |-> "auth.ErrInvalidCredentials"]
        ELSE [user |-> u.user, err |-> Nil]

\* jwt.NewToken: the claims of the token and the key that signs it.
NewToken(user, a) ==
    [uid |-> user.ID, email |-> user.Email, role |-> user.Role,
     app_id |-> a.ID, key |-> a.Secret]

\* Login from the application lookup on.
LoginApp(user, appID) ==
    LET a == StorageApp(appID)
    IN  IF a.err # Nil THEN [token |-> NoToken, err |-> a.err]
        ELSE [token |-> NewToken(user, a.app), err |-> Nil]

AuthUpdateRole(tbl, userID, role) ==
    IF role # "user" /\ role # "organizer" /\ role # "admin"
    THEN [users |-> tbl, err |-> "untyped"]
    ELSE LET s == StorageUpdateRole(tbl, userID, role)
         IN  IF s.err # Nil
             THEN IF ErrorsIs(s.err, "storage.ErrUserNotFound")
                  THEN [users |-> tbl, err |-> "auth.ErrUserNotFound"]
                  ELSE [users |-> tbl, err |-> s.err]
             ELSE [users |-> s.users, err |-> Nil]

AuthGetUserRole(tbl, userID) ==
    LET s == StorageGetUserRole(tbl, userID)
    IN  IF s.err # Nil
        THEN IF ErrorsIs(s.err, "storage.ErrUserNotFound")
             THEN [role |-> "", err |-> "auth.ErrUserNotFound"]
             ELSE [role |-> "", err |-> s.err]
        ELSE [role |-> s.role, err |-> Nil]

AuthListUsers(tbl) ==
    LET s == StorageListUsers(tbl)
    IN  IF s.err # Nil THEN [users |-> NilSlice, err |-> s.err]
        ELSE [users |-> s.users, err |-> Nil]

\* -------------------------------------------------------- transport adapter
\* The status each handler answers an Auth service error with.
LoginStatus(err) ==
    IF err = Nil THEN "OK"
    ELSE IF ErrorsIs(err, "auth.ErrInvalidCredentials") THEN "Unauthenticated"
    ELSE "Internal"

RegisterStatus(err) ==
    IF err = Nil THEN "OK"
    ELSE IF ErrorsIs(err, "storage.ErrUserExists") THEN "AlreadyExists"
    ELSE "Internal"

GetUserRoleStatus(err) ==
    IF err = Nil THEN "OK"
    ELSE IF ErrorsIs(err, "auth.ErrUserNotFound") THEN "NotFound"
    ELSE "Internal"

UpdateRoleStatus(err) ==
    IF err = Nil THEN "OK"
    ELSE IF ErrorsIs(err, "auth.ErrUserNotFound") THEN "NotFound"
    ELSE "Internal"

ListUsersStatus(err) == IF err = Nil THEN "OK" ELSE "Internal"

\* The required-field checks made before the Auth service is called.
LoginMalformed(r) == r.email = "" \/ r.password = "" \/ r.appId = 0
RegisterMalformed(r) == r.email = "" \/ r.password = ""

\* ---------------------------------------------------------------- lifecycle
\* app.New: the storage is created and handed to the Auth service; the App
\* literal sets GRPCServer alone, so its Storage field keeps the zero value.
AppNew == [GRPCServer |-> "grpcApp", Storage |-> Nil]

InFlight(c) == calls[c].pc \notin {"idle", "done"}

Idle == [pc |-> "idle", req |-> NoReq, user |-> NoUser, resp |-> NoResp]

Done(c, resp) == [calls EXCEPT ![c] = [pc |-> "done", req |-> calls[c].req,
                                       user |-> NoUser, resp |-> resp]]

NoReg == [calls |-> 0, accepted |-> 0, ok |-> 0, exists |-> 0]

Init ==
    /\ users = <<>>
    /\ calls = [c \in Clients |-> Idle]
    /\ nCalls = 0
    /\ app = AppNew
    /\ poolOpen = TRUE
    /\ server = "serving"
    /\ mainPc = "wait"
    /\ lastRole = [u \in 1..Cardinality(Emails) |-> ""]
    /\ reg = [e \in Emails |-> NoReg]

\* A client sends its next request; the server accepts it while it serves.
Call(c) ==
    /\ server = "serving"
    /\ ~InFlight(c)
    /\ nCalls < MaxCalls
    /\ \E r \in Requests :
          calls' = [calls EXCEPT ![c] = [pc |-> r.op, req |-> r, user |-> NoUser,
                                        resp |-> NoResp]]
    /\ nCalls' = nCalls + 1
    /\ UNCHANGED <<users, app, poolOpen, server, mainPc, lastRole, reg>>

\* History only: how one more finished Register call with a valid role is
\* counted for its email (accepted: the password is one bcrypt hashes).
Counted(r, req, res) ==
    IF RegisterMalformed(req) \/ req.role \notin {"", "user", "organizer"}
    THEN r
    ELSE [calls |-> r.calls + 1,
          accepted |-> r.accepted + (IF ByteLen(req.password) <= MaxBcryptLen THEN 1 ELSE 0),
          ok |-> r.ok + (IF res.err = Nil THEN 1 ELSE 0),
          exists |-> r.exists + (IF ErrorsIs(res.err, "storage.ErrUserExists") THEN 1 ELSE 0)]

\* serverAPI.Register
Register(c) ==
    LET r == calls[c].req
        res == RegisterNewUser(users, r.email, r.password, r.role)
    IN  /\ calls[c].pc = "Register"
        /\ IF RegisterMalformed(r)
           THEN /\ calls' = Done(c, Resp("InvalidArgument", "notcalled", 0, NoToken, "", NilSlice))
                /\ UNCHANGED <<users, lastRole, reg>>
           ELSE /\ calls' = Done(c, Resp(RegisterStatus(res.err), res.err, res.id,
                                         NoToken, "", NilSlice))
                /\ users' = res.users
                /\ reg' = [reg EXCEPT ![r.email] = Counted(reg[r.email], r, res)]
                /\ lastRole' = IF res.err = Nil
                               THEN [lastRole EXCEPT ![res.id] =
                                        IF r.role = "" THEN "user" ELSE r.role]
                               ELSE lastRole
        /\ UNCHANGED <<nCalls, app, poolOpen, server, mainPc>>

\* serverAPI.Login up to the users round trip and the password check.
Login(c) ==
    LET r == calls[c].req
        res == LoginUser(users, r.email, r.password)
    IN  /\ calls[c].pc = "Login"
        /\ IF LoginMalformed(r)
           THEN calls' = Done(c, Resp("InvalidArgument", "notcalled", 0, NoToken, "", NilSlice))
           ELSE IF res.err # Nil
           THEN calls' = Done(c, Resp(LoginStatus(res.err), res.err, 0, NoToken, "", NilSlice))
           ELSE calls' = [calls EXCEPT ![c].pc = "LoginToken", ![c].user = res.user]
        /\ UNCHANGED <<users, nCalls, app, poolOpen, server, mainPc, lastRole, reg>>

\* serverAPI.Login from the apps round trip to the response.
LoginToken(c) ==
    LET r == calls[c].req
        res == LoginApp(calls[c].user, r.appId)
    IN  /\ calls[c].pc = "LoginToken"
        /\ calls' = Done(c, Resp(LoginStatus(res.err), res.err, 0, res.token, "", NilSlice))
        /\ UNCHANGED <<users, nCalls, app, poolOpen, server, mainPc, lastRole, reg>>

\* serverAPI.UpdateRole
UpdateRole(c) ==
    LET r == calls[c].req
        res == AuthUpdateRole(users, r.userId, r.role)
    IN  /\ calls[c].pc = "UpdateRole"
        /\ calls' = Done(c, Resp(UpdateRoleStatus(res.err), res.err, 0, NoToken, "", NilSlice))
        /\ users' = res.users
        /\ lastRole' = IF res.err = Nil THEN [lastRole EXCEPT ![r.userId] = r.role]
                       ELSE lastRole
        /\ UNCHANGED <<nCalls, app, poolOpen, server, mainPc, reg>>

\* serverAPI.GetUserRole
GetUserRole(c) ==
    LET r == calls[c].req
        res == AuthGetUserRole(users, r.userId)
    IN  /\ calls[c].pc = "GetUserRole"
        /\ calls' = Done(c, Resp(GetUserRoleStatus(res.err), res.err, 0, NoToken,
                                 res.role, NilSlice))
        /\ UNCHANGED <<users, nCalls, app, poolOpen, server, mainPc, lastRole, reg>>

\* serverAPI.ListUsers; the response keeps the slice the Auth service returned.
ListUsers(c) ==
    LET res == AuthListUsers(users)
    IN  /\ calls[c].pc = "ListUsers"
        /\ calls' = Done(c, Resp(ListUsersStatus(res.err), res.err, 0, NoToken, "",
                                 res.users))
        /\ UNCHANGED <<users, nCalls, app, poolOpen, server, mainPc, lastRole, reg>>

\* main: a SIGINT or SIGTERM arrives on the stop channel.
Signal ==
    /\ mainPc = "wait"
    /\ mainPc' = "stop"
    /\ UNCHANGED <<users, calls, nCalls, app, poolOpen, server, lastRole, reg>>

\* main: application.GRPCServer.Stop() returns once the RPCs in flight ended.
GRPCServerStop ==
    /\ mainPc = "stop"
    /\ \A c \in Clients : ~InFlight(c)
    /\ server' = "stopped"
    /\ mainPc' = "close"
    /\ UNCHANGED <<users, calls, nCalls, app, poolOpen, lastRole, reg>>

\* main: application.Storage.Close() and the final log line.  Close on a nil
\* *Storage dereferences it and the process panics.
StorageClose ==
    /\ mainPc = "close"
    /\ IF app.Storage = Nil
       THEN /\ mainPc' = "panic"
            /\ UNCHANGED poolOpen
       ELSE /\ poolOpen' = FALSE
            /\ mainPc' = "done"
    /\ UNCHANGED <<users, calls, nCalls, app, server, lastRole, reg>>

Next ==
    \/ \E c \in Clients :
          \/ Call(c)
          \/ Register(c)
          \/ Login(c)
          \/ LoginToken(c)
          \/ UpdateRole(c)
          \/ GetUserRole(c)
          \/ ListUsers(c)
    \/ Signal
    \/ GRPCServerStop
    \/ StorageClose

Spec == Init /\ [][Next]_vars

\* ------------------------------------------------------------------ claims
Finished(c, op) == calls[c].pc = "done" /\ calls[c].req.op = op

RegistrationRoles == {"", "user", "organizer"}
AssignableRoles == {"user", "organizer", "admin"}

Stored(email) == \E i \in 1..Len(users) : users[i].Email = email

\* C1: a Register call that reaches the Auth service with role "admin" or an
\* unknown role fails with an error that errors.Is classifies as InvalidRole,
\* whatever the email and the password are.
C1_RefusedRoleIsInvalidRole ==
    \A c \in Clients :
        (Finished(c, "Register") /\ ~RegisterMalformed(calls[c].req)
            /\ calls[c].req.role \notin RegistrationRoles)
        => ErrorsIs(calls[c].resp.err, "auth.ErrInvalidRole")

UniqueEmails ==
    \A i, j \in 1..Len(users) : users[i].Email = users[j].Email => i = j

\* C2 as stated: when exactly two Register calls with a valid role were made
\* for an email, one succeeded and the other failed with UserExists, and no
\* two stored users share an email.
C2_TwoRegistersOneSucceeds ==
    /\ UniqueEmails
    /\ \A e \in Emails :
          reg[e].calls = 2 => reg[e].ok = 1 /\ reg[e].exists = 1

\* C2 as amended: among the Register calls for one email that carry a valid
\* role and a password bcrypt accepts (at most 72 bytes), exactly one
\* succeeds and every other one fails with UserExists; no two stored users
\* share an email.
C2_AcceptedRegistersOneSucceeds ==
    /\ UniqueEmails
    /\ \A e \in Emails :
          reg[e].accepted >= 1 =>
              reg[e].ok = 1 /\ reg[e].exists = reg[e].accepted - 1

C2_Witness ==
    \E e \in Emails :
        /\ reg[e].accepted = 2 /\ reg[e].ok = 1 /\ reg[e].exists = 1
        /\ \A c \in Clients : Finished(c, "Register") /\ calls[c].req.email = e
        /\ \E c \in Clients : calls[c].resp.code = "AlreadyExists"
        /\ \E c \in Clients : calls[c].resp.code = "OK" /\ calls[c].resp.uid = 1

\* C3: a Login that reaches the Auth service with the email of a stored user
\* and a password that does not match the stored hash ends at once with an
\* error classified InvalidCredentials and without a token, whatever the
\* application id is.
C3_WrongPasswordIsInvalidCredentials ==
    [][\A c \in Clients :
          (/\ calls[c].pc = "Login"
           /\ calls'[c].pc # "Login"
           /\ ~LoginMalformed(calls[c].req)
           /\ \E i \in 1..Len(users) :
                 /\ users[i].Email = calls[c].req.email
                 /\ CompareHashAndPassword(users[i].PassHash, calls[c].req.password) # Nil)
          => (/\ calls'[c].pc = "done"
              /\ ErrorsIs(calls'[c].resp.err, "auth.ErrInvalidCredentials")
              /\ calls'[c].resp.token = NoToken)]_vars

C3_Witness ==
    \E c \in Clients :
        /\ Finished(c, "Login")
        /\ calls[c].req.appId \notin {a.ID : a \in Apps}
        /\ \E i \in 1..Len(users) :
              /\ users[i].Email = calls[c].req.email
              /\ CompareHashAndPassword(users[i].PassHash, calls[c].req.password) # Nil
        /\ calls[c].resp.err = "auth.ErrInvalidCredentials"
        /\ calls[c].resp.token = NoToken

\* C4: in the Login, GetUserRole and UpdateRole handlers an Auth service
\* error classified UserNotFound is answered with status NotFound.
C4_UserNotFoundIsNotFound ==
    \A c \in Clients :
        (/\ calls[c].pc = "done"
         /\ calls[c].req.op \in {"Login", "GetUserRole", "UpdateRole"}
         /\ ErrorsIs(calls[c].resp.err, "auth.ErrUserNotFound"))
        => calls[c].resp.code = "NotFound"

\* C5: a Register or UpdateRole request whose role the Auth service refuses
\* is answered with status InvalidArgument.
C5_RefusedRoleIsInvalidArgument ==
    \A c \in Clients :
        (\/ (Finished(c, "Register") /\ ~RegisterMalformed(calls[c].req)
               /\ calls[c].req.role \notin RegistrationRoles)
         \/ (Finished(c, "UpdateRole") /\ calls[c].req.role \notin AssignableRoles))
        => calls[c].resp.code = "InvalidArgument"

\* C6: UpdateRole with a role outside user, organizer, admin fails with an
\* error that errors.Is classifies as InvalidRole.
C6_UpdateRoleRefusalIsInvalidRole ==
    \A c \in Clients :
        (Finished(c, "UpdateRole") /\ calls[c].req.role \notin AssignableRoles)
        => ErrorsIs(calls[c].resp.err, "auth.ErrInvalidRole")

\* C7: GetUserRole of a stored user returns the role of the latest successful
\* Register or UpdateRole for that id ("user" after a Register with an empty
\* role); the user record a Login reads carries that role, and the token of
\* a successful Login is built from that record.
C7_ReadsFollowLatestWrite ==
    [][\A c \in Clients :
          /\ (/\ calls[c].pc = "GetUserRole"
              /\ calls'[c].pc = "done"
              /\ \E i \in 1..Len(users) : users[i].ID = calls[c].req.userId)
             => (/\ calls'[c].resp.err = Nil
                 /\ calls'[c].resp.role = lastRole[calls[c].req.userId]
                 /\ calls'[c].resp.role \in AssignableRoles)
          /\ (calls[c].pc = "Login" /\ calls'[c].pc = "LoginToken")
             => calls'[c].user.Role = lastRole[calls'[c].user.ID]
          /\ (calls[c].pc = "LoginToken" /\ calls'[c].pc = "done"
                /\ calls'[c].resp.err = Nil)
             => (/\ calls'[c].resp.token.uid = calls[c].user.ID
                 /\ calls'[c].resp.token.role = calls[c].user.Role)]_vars

C7_Witness ==
    \E c \in Clients :
        /\ Finished(c, "Login")
        /\ calls[c].resp.err = Nil
        /\ calls[c].resp.token.role = "admin"
        /\ lastRole[calls[c].resp.token.uid] = "admin"
        /\ reg[calls[c].req.email].ok = 1

\* C8: every stored role is one of user, organizer, admin after every step,
\* and a Register or UpdateRole call that fails leaves the users table as it
\* was.
C8_StoredRolesStayValid ==
    [][/\ \A i \in 1..Len(users') : users'[i].Role \in AssignableRoles
       /\ \A c \in Clients :
             (/\ calls[c].pc \in {"Register", "UpdateRole"}
              /\ calls'[c].pc = "done"
              /\ calls'[c].resp.code # "OK")
             => users' = users]_vars

C8_Witness ==
    /\ \E i \in 1..Len(users) : users[i].Role = "admin"
    /\ \E c \in Clients :
          /\ Finished(c, "UpdateRole")
          /\ calls[c].req.role = "superuser"
          /\ \E i \in 1..Len(users) : users[i].ID = calls[c].req.userId
          /\ calls[c].resp.code # "OK"

\* C9: ListUsers succeeds, and when it has no user to return the sequence it
\* returns is empty but not nil.
C9_EmptyListIsNotNil ==
    \A c \in Clients :
        Finished(c, "ListUsers")
        => (/\ calls[c].resp.err = Nil
            /\ Len(calls[c].resp.users.elems) = 0 => ~calls[c].resp.users.isNil)

\* C10: after the stop signal the process never aborts, it has closed the
\* storage pool when it completes, and the pool is closed only once the
\* gRPC server has stopped.
C10_ShutdownClosesPoolAndCompletes ==
    /\ mainPc # "panic"
    /\ mainPc = "done" => ~poolOpen
    /\ ~poolOpen => server = "stopped"

==========================================================================
